---- MODULE Spec2Model ----
(***************************************************************************)
(* A state-machine model of niceperf's latency harness                     *)
(* (src/latency/src/main.rs): the datagram probe socket UdpLatency, the    *)
(* ConnCtx / ConnRunner pair around a tokio duplex pipe, the Client        *)
(* (Session) event loop and handshake, and the CtrlServer accept loop.     *)
(*                                                                         *)
(* Tasks are tokio tasks; one action is one poll of a task from one        *)
(* suspension point to the next.  Time is a discrete clock; a timer is     *)
(* ready when the clock has reached its deadline.                          *)
(***************************************************************************)
EXTENDS Integers, Sequences, FiniteSets, TLC

\* ------------------------------------------------------------------ bounds
NumAddr == 2        \* socket addresses 1..NumAddr
MaxCtx == 3         \* ConnCtx/ConnRunner pairs a Client may own
MaxRunCtx == 2      \* the same where the network and the control stream talk
MaxClients == 2     \* control connections the CtrlServer may accept
PipeCap == 1        \* max_buf_size of a duplex pipe, in bytes
MaxPacket == 2      \* largest packet_size / datagram length, in bytes
MaxTime == 2        \* the clock stops after this many steps (Spec)
MaxTimerTime == 3   \* the same where no ConnRunner runs
MaxHsCtx == 1       \* ConnCtx of the Client whose handshake is called
HsMsgLen == 2       \* length of the serialized handshake message, in bytes
MaxPeriod == 2      \* largest interval / timeout drawn, in clock steps

Addr == 1..NumAddr
CtxId == 1..MaxCtx
SessId == 1..MaxClients
None == 0

VARIABLES
    now,        \* the runtime clock
    srv,        \* CtrlServer::run: its position
    clients,    \* CtrlServer.clients: Vec<ClientCtx>
    sess,       \* Client: configuration and position of Client::run
    stopCh,     \* the oneshot channel behind Client.stop
    ctrl,       \* the control stream's receive half, Client.rx_ctrl
    ctxOf,      \* Client.ctx: Vec<ConnCtx>, as ctx identifiers
    pipe,       \* the tokio duplex between ConnCtx.bidi and ConnRunner.bidi
    cancel,     \* ConnCtx.stop and the oneshot channel behind it
    runner,     \* ConnRunner: position of ConnRunner::run
    sock,       \* UdpLatency.peer and its role
    remote,     \* the remote an Initiator socket was constructed with
    dgOut,      \* the latest datagram handed to send_to, per socket
    lastRes,    \* the latest direct call on a socket and what it returned
    hs,         \* Client::handshake: configuration and position
    complete,   \* the oneshot channel behind handshake's `complete`
    hist,       \* observations of the run (not program state)
    trip        \* the task of test::test and the datagrams in flight

vars == <<now, srv, clients, sess, stopCh, ctrl, ctxOf, pipe, cancel, runner,
          sock, remote, dgOut, lastRes, hs, complete, hist, trip>>

\* ------------------------------------------------------- byte strings
\* sndbuf = [0u8; ..][..n]: n zero bytes.
Zeros(n) == [k \in 1..n |-> 0]

\* Datagrams the network may deliver: up to MaxPacket bytes, all distinct.
Payloads == {[k \in 1..n |-> k] : n \in 0..MaxPacket}

Min(a, b) == IF a < b THEN a ELSE b

Take(s, n) == SubSeq(s, 1, Min(n, Len(s)))

\* A write that starts over with the whole buffer after a partial write.
Drop_again(s, n) == s

Drop(s, n) == SubSeq(s, Min(n, Len(s)) + 1, Len(s))

\* ------------------------------------------------- UdpLatency (l. 40-101)
Ok(n) == [tag |-> "Ok", len |-> n]

Err(e) == [tag |-> "Err", err |-> e]

Panic == [tag |-> "Panic"]

\* UdpLatency::<socket_kind::Server>::new: no peer yet.
UdpLatency_Server_new == [peer |-> None, kind |-> "Server"]

\* UdpLatency::<socket_kind::Client>::new(remote): peer fixed at construction.
UdpLatency_Client_new(r) == [peer |-> r, kind |-> "Client"]

\* A recv that never looks at the source once a peer is set.
UdpLatency_recv_nocheck(s, src, len, ioOk) ==
    IF ~ioOk THEN [sock |-> s, res |-> Err("Io")]
    ELSE IF s.peer # None
         THEN [sock |-> s, res |-> Ok(len)]
         ELSE [sock |-> [s EXCEPT !.peer = src], res |-> Ok(len)]

\* A recv that re-pins the peer to whatever source it last heard from.
UdpLatency_recv_repin(s, src, len, ioOk) ==
    IF ~ioOk THEN [sock |-> s, res |-> Err("Io")]
    ELSE [sock |-> [s EXCEPT !.peer = src], res |-> Ok(len)]

\* UdpLatency::recv: recv_from, then the source check or the pin.
UdpLatency_recv(s, src, len, ioOk) ==
    IF ~ioOk THEN [sock |-> s, res |-> Err("Io")]
    ELSE IF s.peer # None
         THEN IF src # s.peer
              THEN [sock |-> s, res |-> Err("PeerMismatch")]
              ELSE [sock |-> s, res |-> Ok(len)]
         ELSE [sock |-> [s EXCEPT !.peer = src], res |-> Ok(len)]

\* UdpLatency::send: self.peer.unwrap() panics on an unset peer, else
\* send_to(buf, peer); `out` is the datagram handed to the network.
UdpLatency_send(s, buf, ioOk) ==
    IF s.peer = None THEN [res |-> Panic, out |-> {}]
    ELSE IF ~ioOk THEN [res |-> Err("Io"), out |-> {}]
    ELSE [res |-> Ok(Len(buf)), out |-> {[dest |-> s.peer, data |-> buf]}]

\* ------------------------------------------- tokio::sync::oneshot channel
\* sent: a value was sent; txDropped: the Sender was dropped unused;
\* rxDropped: the Receiver was dropped.
NewOneshot == [sent |-> FALSE, txDropped |-> FALSE, rxDropped |-> FALSE]

\* `_ = &mut rx`: the Receiver future resolves on a value and also (with
\* Err(RecvError)) once the Sender is gone; the pattern `_` takes both.
RxReady(ch) == ch.sent \/ ch.txDropped

\* Sender::send(()): Err when the Receiver is gone, else the value is stored.
TxSendOk(ch) == ~ch.rxDropped

\* ------------------------------------------- tokio::io::duplex (the pipes)
\* fwd: bytes written by the ConnCtx end and not yet read by the ConnRunner
\* end; rev: the opposite direction; closed: either end was dropped.
NewPipe == [fwd |-> <<>>, rev |-> <<>>, closed |-> FALSE]

\* A write_all that gives up the bytes that do not fit instead of waiting.
WriteAll_lossy(buf, closed, data) ==
    IF data = <<>> THEN [st |-> "Ok", buf |-> buf, rem |-> <<>>]
    ELSE IF closed THEN [st |-> "Err", buf |-> buf, rem |-> data]
    ELSE [st |-> "Ok", buf |-> buf \o Take(data, PipeCap - Len(buf)),
          rem |-> <<>>]

\* AsyncWriteExt::write_all(data) on a pipe direction holding `buf`, up to its
\* first suspension: nothing to do for no bytes; BrokenPipe on a closed pipe;
\* else as many bytes as fit are appended and the rest waits for room.
WriteAll(buf, closed, data) ==
    IF data = <<>> THEN [st |-> "Ok", buf |-> buf, rem |-> <<>>]
    ELSE IF closed THEN [st |-> "Err", buf |-> buf, rem |-> data]
    ELSE IF Len(data) <= PipeCap - Len(buf)
         THEN [st |-> "Ok", buf |-> buf \o data, rem |-> <<>>]
         ELSE [st |-> "Pending",
               buf |-> buf \o Take(data, PipeCap - Len(buf)),
               rem |-> Drop(data, PipeCap - Len(buf))]

\* A suspended write_all is woken when the pipe has room or was closed.
WriteWakes(buf, closed) == closed \/ Len(buf) < PipeCap

\* AsyncReadExt::read on a pipe direction: ready when bytes are buffered (all
\* of them fit the 65535-byte buffer) or, with Ok(0), when the pipe is closed.
ReadReady(buf, closed) == buf # <<>> \/ closed

\* ------------------------------------------------------ initial values
NoCall == [op |-> "none", src |-> None, before |-> None, res |-> Ok(0)]

NoClient ==
    [st |-> "Unborn", timeout |-> 0, interval |-> 0, packet_size |-> 0,
     nextTick |-> 0, sleepAt |-> 0, wi |-> 0, wrem |-> <<>>,
     start |-> 0, cause |-> "none"]

\* ticks: tick branches taken; via: what resolved `complete`.
NoHandshake ==
    [st |-> "Off", client |-> None, timeout |-> 0, interval |-> 0,
     nextTick |-> 0, sleepAt |-> 0, wi |-> 0, wrem |-> <<>>, start |-> 0,
     ticks |-> 0, via |-> "none"]

NewCancel == [slot |-> "Some", uses |-> 0, sent |-> FALSE,
              txDropped |-> FALSE, rxDropped |-> FALSE]

\* test::test (l. 365-389) has not started: no datagram of socket c is in
\* flight (net[c]), no byte was handed to write_all (next), none was read on
\* the Reflector side (got), the task is not inside a write_all (pc, rem).
NoTrip ==
    [net |-> [c \in CtxId |-> <<>>], next |-> 0, got |-> <<>>,
     pc |-> "Off", rem |-> <<>>]

\* wlog[c]: the bytes written to ConnCtx c's pipe by the fan-out now running
\* or last run; mism: the sockets that have refused a datagram; accepts: the
\* control connections the CtrlServer has accepted; failed: the ConnRunners
\* one of whose reads, sends, receives or writes has returned an error;
\* wfail: <<s, i>> when a write_all of Client s to its ConnCtx number i has
\* returned an error.
NoHist ==
    [wlog |-> [c \in CtxId |-> <<>>],
     mism |-> {},
     accepts |-> 0,
     failed |-> {},
     wfail |-> {}]

\* --------------------------------------------- SpecSock: one socket, called
\* directly, built as test_client / test_server build it (l. 344, l. 355).
SockInit ==
    /\ now = 0
    /\ srv = "Off"
    /\ clients = <<>>
    /\ sess = [s \in SessId |-> NoClient]
    /\ stopCh = [s \in SessId |-> NewOneshot]
    /\ ctrl = [s \in SessId |-> "Open"]
    /\ ctxOf = [s \in SessId |-> <<>>]
    /\ pipe = [c \in CtxId |-> NewPipe]
    /\ cancel = [c \in CtxId |-> NewCancel]
    /\ runner = [c \in CtxId |-> [pc |-> "Off", rem |-> <<>>]]
    /\ \E r \in Addr \cup {None} :
          /\ sock = [c \in CtxId |-> IF r = None THEN UdpLatency_Server_new
                                     ELSE UdpLatency_Client_new(r)]
          /\ remote = [c \in CtxId |-> r]
    /\ dgOut = [c \in CtxId |-> {}]
    /\ lastRes = [c \in CtxId |-> NoCall]
    /\ hs = NoHandshake
    /\ complete = NewOneshot
    /\ hist = NoHist
    /\ trip = NoTrip

\* A caller awaits socket.send(buf); a panicking call ends the caller.
SockSend(c, buf, ioOk) ==
    LET r == UdpLatency_send(sock[c], buf, ioOk) IN
    /\ lastRes[c].res.tag # "Panic"
    /\ dgOut' = [dgOut EXCEPT ![c] = IF r.out = {} THEN @ ELSE r.out]
    /\ lastRes' = [lastRes EXCEPT ![c] = [op |-> "send", src |-> None,
                                          before |-> sock[c].peer, res |-> r.res]]
    /\ UNCHANGED <<now, srv, clients, sess, stopCh, ctrl, ctxOf, pipe, cancel,
                   runner, sock, remote, hs, complete, hist, trip>>

\* A caller awaits socket.recv(buf) and a datagram of `len` bytes from `src`
\* arrives (or recv_from fails).
SockRecv(c, src, len, ioOk) ==
    LET r == UdpLatency_recv(sock[c], src, len, ioOk) IN
    /\ lastRes[c].res.tag # "Panic"
    /\ sock' = [sock EXCEPT ![c] = r.sock]
    /\ lastRes' = [lastRes EXCEPT ![c] = [op |-> "recv", src |-> src,
                                          before |-> sock[c].peer, res |-> r.res]]
    /\ hist' = [hist EXCEPT !.mism =
                   IF r.res = Err("PeerMismatch") THEN @ \cup {c} ELSE @]
    /\ UNCHANGED <<now, srv, clients, sess, stopCh, ctrl, ctxOf, pipe, cancel,
                   runner, remote, dgOut, hs, complete, trip>>

SockNext ==
    \/ \E buf \in Payloads, ioOk \in BOOLEAN : SockSend(1, buf, ioOk)
    \/ \E src \in Addr, len \in 0..MaxPacket, ioOk \in BOOLEAN :
          SockRecv(1, src, len, ioOk)

SpecSock == SockInit /\ [][SockNext]_vars

\* The latest call on socket c was a receive, with a peer already pinned, of a
\* datagram from another source.
RecvFromStranger(c) ==
    /\ lastRes[c].op = "recv"
    /\ lastRes[c].before # None
    /\ lastRes[c].src # lastRes[c].before
    /\ lastRes[c].res # Err("Io")

C1_Rejected == \A c \in CtxId : RecvFromStranger(c) => lastRes[c].res = Err("PeerMismatch")

C1_PeerStays ==
    \A c \in CtxId : sock[c].peer # None => sock'[c].peer = sock[c].peer

C1_FirstRecvPins ==
    \A c \in CtxId :
        (sock[c].peer = None /\ lastRes'[c].op = "recv" /\ lastRes'[c].res.tag = "Ok")
        => sock'[c].peer = lastRes'[c].src

\* C1: a Reflector's first successful receive pins the datagram's source as
\* its peer; once a datagram socket has a peer (an Initiator from
\* construction) the peer never changes, and every receive of a datagram from
\* another source fails with PeerMismatch instead of returning a byte count.
C1_PeerPinned == [] C1_Rejected /\ [][C1_PeerStays /\ C1_FirstRecvPins]_vars

\* A Reflector that pinned a peer on its first receive and then refused a
\* datagram from another source.
C1_Witness ==
    /\ sock[1].kind = "Server"
    /\ sock[1].peer # None
    /\ RecvFromStranger(1)
    /\ lastRes[1].res = Err("PeerMismatch")

\* C2: every datagram an Initiator has sent is addressed to the remote it was
\* constructed with, whatever sends and receives (failed ones included) came
\* before.
C2_InitiatorDest ==
    \A c \in CtxId :
        sock[c].kind = "Client" => \A d \in dgOut[c] : d.dest = remote[c]

\* An Initiator that refused a datagram from another source and sent
\* afterwards.
C2_Witness ==
    /\ sock[1].kind = "Client"
    /\ 1 \in hist.mism
    /\ lastRes[1].op = "send"
    /\ lastRes[1].res.tag = "Ok"
    /\ dgOut[1] # {}

\* ------------------------------------------------ ConnRunner (l. 301-336)
\* The task that owned a ConnRunner ended (return or panic): the runner and
\* with it its pipe end and its stop Receiver are dropped.
PipeAfterRunnerDrop(p) == [p EXCEPT !.closed = TRUE]

CancelAfterRunnerDrop(k) == [k EXCEPT !.rxDropped = TRUE]

\* A runner whose stop Receiver and whose other branch stay polled while the
\* body of a branch awaits.
AtSelect_while_forwarding(r) == r.pc \in {"Select", "Sending", "Writing"}

\* l. 320-321: the three branches are polled by the select! of the loop, so
\* only by a runner that is not inside the body of a branch (l. 323-324,
\* l. 327-328), whose awaits run to their end before the loop comes round.
AtSelect(r) == r.pc = "Select"

\* A runner that goes back to its select! after a failed operation.
PcAfterUnwrap_retry(res) == "Select"

\* `.unwrap()` (l. 323, 324, 327, 328): the task panics unless the result is
\* Ok.
PcAfterUnwrap(res) == IF res.tag = "Ok" THEN "Select" ELSE "Panicked"

\* The observation that an operation of runner c has returned `res`.
FailedAfter(c, res) ==
    [hist EXCEPT !.failed = IF res.tag = "Ok" THEN @ ELSE @ \cup {c}]

\* ConnRunner::run, select branch 1 (l. 322-324) up to the first suspension:
\* the read of the pipe gives what it holds (nothing, with Ok(0), once the
\* pipe is closed) and the bytes are copied (`sndsndbuf`, kept in rem);
\* UdpLatency::send then panics at once on an unset peer (l. 85) or waits
\* in send_to(..).await.
RunnerRead(c) ==
    /\ AtSelect(runner[c])
    /\ ReadReady(pipe[c].fwd, pipe[c].closed)
    /\ IF UdpLatency_send(sock[c], pipe[c].fwd, TRUE).res = Panic
       THEN /\ runner' = [runner EXCEPT ![c] =
                             [pc |-> PcAfterUnwrap(Panic), rem |-> <<>>]]
            /\ pipe' = [pipe EXCEPT ![c] =
                           PipeAfterRunnerDrop([@ EXCEPT !.fwd = <<>>])]
            /\ cancel' = [cancel EXCEPT ![c] = CancelAfterRunnerDrop(@)]
            /\ hist' = FailedAfter(c, Panic)
       ELSE /\ runner' = [runner EXCEPT ![c] =
                             [pc |-> "Sending", rem |-> pipe[c].fwd]]
            /\ pipe' = [pipe EXCEPT ![c].fwd = <<>>]
            /\ UNCHANGED <<cancel, hist>>
    /\ UNCHANGED <<now, srv, clients, sess, stopCh, ctrl, ctxOf, sock, remote,
                   dgOut, lastRes, hs, complete, trip>>

\* What a send of runner c that has returned r leaves behind: the select!
\* again, or the panic of `.unwrap()` (l. 324).
RunnerAfterSend(c, r) ==
    /\ dgOut' = [dgOut EXCEPT ![c] = IF r.out = {} THEN @ ELSE r.out]
    /\ hist' = FailedAfter(c, r.res)
    /\ runner' = [runner EXCEPT ![c] =
                     [pc |-> PcAfterUnwrap(r.res), rem |-> <<>>]]
    /\ IF r.res.tag = "Ok"
       THEN UNCHANGED <<pipe, cancel>>
       ELSE /\ pipe' = [pipe EXCEPT ![c] = PipeAfterRunnerDrop(@)]
            /\ cancel' = [cancel EXCEPT ![c] = CancelAfterRunnerDrop(@)]

\* The send_to suspended at l. 324 (l. 85) completes: the datagram is handed
\* to the network, or the send fails.
RunnerSend(c, ioOk) ==
    /\ runner[c].pc = "Sending"
    /\ RunnerAfterSend(c, UdpLatency_send(sock[c], runner[c].rem, ioOk))
    /\ UNCHANGED <<now, srv, clients, sess, stopCh, ctrl, ctxOf, sock, remote,
                   lastRes, hs, complete, trip>>

\* The runner's write_all of `data` into the pipe, from `pc` on: back to the
\* select when all is written, suspended while bytes remain, a panic
\* (unwrap) on BrokenPipe.
RunnerWrite(c, data) ==
    LET w == WriteAll(pipe[c].rev, pipe[c].closed, data) IN
    IF w.st = "Err"
    THEN /\ runner' = [runner EXCEPT ![c] =
                          [pc |-> PcAfterUnwrap(Err("BrokenPipe")),
                           rem |-> <<>>]]
         /\ pipe' = [pipe EXCEPT ![c] = PipeAfterRunnerDrop(@)]
         /\ cancel' = [cancel EXCEPT ![c] = CancelAfterRunnerDrop(@)]
         /\ hist' = FailedAfter(c, Err("BrokenPipe"))
    ELSE /\ hist' = FailedAfter(c, Ok(Len(data)))
         /\ runner' = [runner EXCEPT ![c] =
                          [pc |-> IF w.st = "Ok" THEN "Select" ELSE "Writing",
                           rem |-> w.rem]]
         /\ pipe' = [pipe EXCEPT ![c].rev = w.buf]
         /\ UNCHANGED cancel

\* ConnRunner::run, select branch 2 (l. 326-329): socket.recv, len.unwrap(),
\* then bidi.write_all(..).await.unwrap().
RunnerRecv(c, src, data, ioOk) ==
    LET r == UdpLatency_recv(sock[c], src, Len(data), ioOk) IN
    /\ AtSelect(runner[c])
    /\ sock' = [sock EXCEPT ![c] = r.sock]
    /\ IF r.res.tag = "Ok"
       THEN RunnerWrite(c, Take(data, r.res.len))
       ELSE /\ runner' = [runner EXCEPT ![c].pc = PcAfterUnwrap(r.res)]
            /\ pipe' = [pipe EXCEPT ![c] = PipeAfterRunnerDrop(@)]
            /\ cancel' = [cancel EXCEPT ![c] = CancelAfterRunnerDrop(@)]
            /\ hist' = FailedAfter(c, r.res)
    /\ UNCHANGED <<now, srv, clients, sess, stopCh, ctrl, ctxOf, remote,
                   dgOut, lastRes, hs, complete, trip>>

\* The runner's suspended write_all (l. 328) is polled again.
RunnerWriteResume(c) ==
    /\ runner[c].pc = "Writing"
    /\ WriteWakes(pipe[c].rev, pipe[c].closed)
    /\ RunnerWrite(c, runner[c].rem)
    /\ UNCHANGED <<now, srv, clients, sess, stopCh, ctrl, ctxOf, sock, remote,
                   dgOut, lastRes, hs, complete, trip>>

\* A runner that ends only on an explicit cancellation (`Ok(_) = &mut stop`).
RunnerStopReady_sent_only(k) == k.sent

\* l. 330: `_ = &mut self.stop` is ready once the Receiver resolves, to
\* Ok(()) or to Err(RecvError).
RunnerStopReady(k) == RxReady(k)

\* ConnRunner::run, select branch 3 (l. 330-332): break.
RunnerStop(c) ==
    /\ AtSelect(runner[c])
    /\ RunnerStopReady(cancel[c])
    /\ runner' = [runner EXCEPT ![c].pc = "Exited"]
    /\ pipe' = [pipe EXCEPT ![c] = PipeAfterRunnerDrop(@)]
    /\ cancel' = [cancel EXCEPT ![c] = CancelAfterRunnerDrop(@)]
    /\ UNCHANGED <<now, srv, clients, sess, stopCh, ctrl, ctxOf, sock, remote,
                   dgOut, lastRes, hs, complete, hist, trip>>

RunnerGone(c) == runner[c].pc \in {"Exited", "Panicked"}

\* ---------------------------------------------------- Client (l. 175-279)
\* The configuration handle_client passes to Client::new (l. 161), in ms and
\* bytes.
Timeout_ms == 1000

Interval_ms == 1000

PacketSize == 1000

\* One step of the clock, in ms.
MsPerStep == Interval_ms

\* Client::new (l. 187-205): no ConnCtx yet; run() not yet polled.
Client_new(timeout, interval, packet_size) ==
    [NoClient EXCEPT !.st = "Spawned", !.timeout = timeout,
                     !.interval = interval, !.packet_size = packet_size]

Alive(s) == sess[s].st \in {"Spawned", "Select", "Writing"}

SteadyState(s) == sess[s].st \in {"Select", "Writing"}

Terminated(s) == sess[s].st \in {"Done", "Panicked"}

\* The task has ended: how (returned from run, or panicked) and in which
\* branch; its timers and buffers are gone.
Ended(cl, st, why) ==
    [NoClient EXCEPT !.st = st, !.cause = why, !.timeout = cl.timeout,
                     !.interval = cl.interval, !.packet_size = cl.packet_size]

\* l. 218: sndbuf[..packet_size].to_vec(), zero bytes.
ProbePayload(cl) == Zeros(cl.packet_size)

\* `.await` inside the for loop: the loop stays at ConnCtx i until its
\* write_all has completed.
NextAfterPending(i) == i

\* The for loop of l. 219-221 (and l. 268-270) from ConnCtx number i on, with
\* `rem` the bytes still to write to that one and `payload` the bytes every
\* later one gets.  E carries the pipes and the log of bytes written.
RECURSIVE FanOut(_, _, _, _, _)
FanOut(E, ctxs, i, rem, payload) ==
    IF i > Len(ctxs) THEN [pipe |-> E.pipe, wlog |-> E.wlog, st |-> "Done",
                           wi |-> 0, wrem |-> <<>>]
    ELSE LET c == ctxs[i]
             w == WriteAll(E.pipe[c].fwd, E.pipe[c].closed, rem)
             n == Len(w.buf) - Len(E.pipe[c].fwd)
             E2 == [pipe |-> [E.pipe EXCEPT ![c].fwd = w.buf],
                    wlog |-> [E.wlog EXCEPT ![c] = @ \o Take(rem, n)]]
         IN  IF w.st = "Ok" THEN FanOut(E2, ctxs, i + 1, payload, payload)
             ELSE [pipe |-> E2.pipe, wlog |-> E2.wlog, st |-> w.st,
                   wi |-> i, wrem |-> w.rem]

\* The for loop of l. 228-230 / l. 234-236 visits every ConnCtx in order.
CancelFrom(i) == i

\* ctx.stop.take().unwrap().send(()).unwrap() for every ConnCtx from number i
\* on: a panic on an empty slot or on a Receiver that is gone.
RECURSIVE CancelAll(_, _, _)
CancelAll(K, ctxs, i) ==
    IF CancelFrom(i) > Len(ctxs) THEN [cancel |-> K, st |-> "Ok"]
    ELSE LET c == ctxs[CancelFrom(i)] IN
         IF K[c].slot = "None" THEN [cancel |-> K, st |-> "Panic"]
         ELSE LET K2 == [K EXCEPT ![c].slot = "None", ![c].uses = @ + 1,
                                  ![c].sent = TxSendOk(K[c])]
              IN  IF TxSendOk(K[c]) THEN CancelAll(K2, ctxs, CancelFrom(i) + 1)
                  ELSE [cancel |-> K2, st |-> "Panic"]

\* The Client is dropped when the task of l. 162-164 ends (return or panic):
\* every ConnCtx goes with it, so its pipe end closes and a stop Sender still
\* in its slot is dropped unused.
PipesAfterClientDrop(P, ctxs) ==
    [c \in CtxId |-> IF \E i \in 1..Len(ctxs) : ctxs[i] = c
                     THEN [P[c] EXCEPT !.closed = TRUE] ELSE P[c]]

CancelAfterClientDrop(K, ctxs) ==
    [c \in CtxId |-> IF (\E i \in 1..Len(ctxs) : ctxs[i] = c) /\ K[c].slot = "Some"
                     THEN [K[c] EXCEPT !.txDropped = TRUE, !.slot = "None"]
                     ELSE K[c]]

\* First poll of the spawned task: Client::run up to its first select!
\* (l. 208-216).  The interval's first tick is due at once.
SessStart(s) ==
    /\ sess[s].st = "Spawned"
    /\ sess' = [sess EXCEPT ![s].st = "Select", ![s].start = now,
                            ![s].nextTick = now,
                            ![s].sleepAt = now + sess[s].timeout]
    /\ UNCHANGED <<now, srv, clients, stopCh, ctrl, ctxOf, pipe, cancel,
                   runner, sock, remote, dgOut, lastRes, hs, complete, hist,
                   trip>>

\* A loop that logs the failed write and goes on to its next select!.
AfterWriteUnwrap_goes_on(cl) ==
    [cl EXCEPT !.st = "Select", !.wi = 0, !.wrem = <<>>]

\* `.await.unwrap()` of l. 220 on Err: the panic ends the task of l. 162-164.
AfterWriteUnwrap(cl) == Ended(cl, "Panicked", "write")

\* The log of the fan-out f of Client s: the bytes it wrote to each pipe and,
\* when a write_all gave Err, the number of the ConnCtx it was writing to.
WriteFailedAfter(s, f) ==
    [hist EXCEPT !.wlog = f.wlog,
                 !.wfail = IF f.st = "Err" THEN @ \cup {<<s, f.wi>>} ELSE @]

\* What the tick branch leaves behind once its fan-out f has run as far as it
\* can: the next select! (with a fresh sleep, l. 227), a suspended write_all,
\* or the panic of `.unwrap()` on a failed write.
SessAfterFanOut(s, f, cl) ==
    /\ hist' = WriteFailedAfter(s, f)
    /\ IF f.st = "Err"
       THEN /\ sess' = [sess EXCEPT ![s] = AfterWriteUnwrap(cl)]
            /\ pipe' = PipesAfterClientDrop(f.pipe, ctxOf[s])
            /\ cancel' = CancelAfterClientDrop(cancel, ctxOf[s])
            /\ stopCh' = [stopCh EXCEPT ![s].rxDropped = TRUE]
       ELSE /\ sess' = [sess EXCEPT ![s] =
                  IF f.st = "Done"
                  THEN [cl EXCEPT !.st = "Select", !.wi = 0, !.wrem = <<>>,
                                  !.sleepAt = now + cl.timeout]
                  ELSE [cl EXCEPT !.st = "Writing",
                                  !.wi = NextAfterPending(f.wi),
                                  !.wrem = f.wrem]]
            /\ pipe' = f.pipe
            /\ UNCHANGED <<cancel, stopCh>>

\* Client::run, select branch 1 (l. 217-222): snd_timer.tick().
SessTick(s) ==
    /\ sess[s].st = "Select"
    /\ now >= sess[s].nextTick
    /\ SessAfterFanOut(s,
          FanOut([pipe |-> pipe, wlog |-> NoHist.wlog], ctxOf[s], 1,
                 ProbePayload(sess[s]), ProbePayload(sess[s])),
          [sess[s] EXCEPT !.nextTick = @ + sess[s].interval])
    /\ UNCHANGED <<now, srv, clients, ctrl, ctxOf, runner, sock, remote,
                   dgOut, lastRes, hs, complete, trip>>

\* The write_all suspended at l. 220 is polled again.
SessWriteResume(s) ==
    /\ sess[s].st = "Writing"
    /\ WriteWakes(pipe[ctxOf[s][sess[s].wi]].fwd, pipe[ctxOf[s][sess[s].wi]].closed)
    /\ SessAfterFanOut(s,
          FanOut([pipe |-> pipe, wlog |-> hist.wlog], ctxOf[s], sess[s].wi,
                 sess[s].wrem, ProbePayload(sess[s])),
          sess[s])
    /\ UNCHANGED <<now, srv, clients, ctrl, ctxOf, runner, sock, remote,
                   dgOut, lastRes, hs, complete, trip>>

\* Client::run, select branch 2 (l. 223-226): the peer has written bytes on
\* the control stream and rx_ctrl.read gives Ok(Some(len)); handle_ctrl_msg is
\* todo!() (l. 244-246), a panic.
SessCtrlMsg(s) ==
    /\ sess[s].st = "Select"
    /\ ctrl[s] = "Open"
    /\ sess' = [sess EXCEPT ![s] = Ended(@, "Panicked", "ctrl")]
    /\ UNCHANGED ctrl
    /\ pipe' = PipesAfterClientDrop(pipe, ctxOf[s])
    /\ cancel' = CancelAfterClientDrop(cancel, ctxOf[s])
    /\ stopCh' = [stopCh EXCEPT ![s].rxDropped = TRUE]
    /\ UNCHANGED <<now, srv, clients, ctxOf, runner, sock, remote, dgOut,
                   lastRes, hs, complete, hist, trip>>

\* The cancellation loop and `break` shared by branches 3 and 4, then the end
\* of the task.
SessCancelAndExit(s, why) ==
    LET k == CancelAll(cancel, ctxOf[s], 1) IN
    /\ sess' = [sess EXCEPT ![s] =
                   Ended(@, IF k.st = "Ok" THEN "Done" ELSE "Panicked", why)]
    /\ cancel' = CancelAfterClientDrop(k.cancel, ctxOf[s])
    /\ pipe' = PipesAfterClientDrop(pipe, ctxOf[s])
    /\ stopCh' = [stopCh EXCEPT ![s].rxDropped = TRUE]

\* Client::run, select branch 3 (l. 227-232): the sleep created by this
\* iteration of the loop has elapsed.
SessTimeout(s) ==
    /\ sess[s].st = "Select"
    /\ now >= sess[s].sleepAt
    /\ SessCancelAndExit(s, "timeout")
    /\ UNCHANGED <<now, srv, clients, ctrl, ctxOf, runner, sock, remote,
                   dgOut, lastRes, hs, complete, hist, trip>>

\* l. 233: `_ = &mut self.stop` is ready once the Receiver resolves, to
\* Ok(()) or, when the Sender was dropped, to Err(RecvError).
SessStopReady(ch) == RxReady(ch)

\* Client::run, select branch 4 (l. 233-238): `_ = &mut self.stop`.
SessStop(s) ==
    /\ sess[s].st = "Select"
    /\ SessStopReady(stopCh[s])
    /\ SessCancelAndExit(s, "stop")
    /\ UNCHANGED <<now, srv, clients, ctrl, ctxOf, runner, sock, remote,
                   dgOut, lastRes, hs, complete, hist, trip>>

\* A task awaiting its select! with a timer branch that is due.
TimerDue ==
    \/ \E s \in SessId : /\ sess[s].st = "Select"
                         /\ (now >= sess[s].nextTick \/ now >= sess[s].sleepAt)
    \/ /\ hs.st = "Select"
       /\ (now >= hs.nextTick \/ now >= hs.sleepAt)

\* A task that holds timers is running.
TimersHeld == (\E s \in SessId : Alive(s)) \/ hs.st \in {"Select", "Writing"}

\* The clock moves on one step; a task whose timer is due is polled first,
\* and the clock is not looked at once no task holds a timer.
Advance(horizon) ==
    /\ now < horizon * MsPerStep
    /\ TimersHeld
    /\ ~TimerDue
    /\ now' = now + MsPerStep
    /\ UNCHANGED <<srv, clients, sess, stopCh, ctrl, ctxOf, pipe, cancel,
                   runner, sock, remote, dgOut, lastRes, hs, complete, hist,
                   trip>>

\* The holder of a Client's stop Sender sends on it, as l. 145 does.
StopSend(s) ==
    /\ Alive(s)
    /\ ~stopCh[s].sent /\ ~stopCh[s].txDropped
    /\ stopCh' = [stopCh EXCEPT ![s].sent = TRUE]
    /\ UNCHANGED <<now, srv, clients, sess, ctrl, ctxOf, pipe, cancel,
                   runner, sock, remote, dgOut, lastRes, hs, complete, hist,
                   trip>>

\* ------------------------------------------- Spec: one Client with its
\* ConnCtx/ConnRunner pairs, spawned as handle_client spawns it.
Periods == {k * MsPerStep : k \in 1..MaxPeriod}

Init ==
    /\ now = 0
    /\ srv = "Off"
    /\ clients = <<>>
    /\ \E ps \in 1..MaxPacket :
          sess = [s \in SessId |-> IF s = 1 THEN Client_new(Timeout_ms, Interval_ms, ps)
                                   ELSE NoClient]
    /\ stopCh = [s \in SessId |-> NewOneshot]
    /\ ctrl = [s \in SessId |-> "Open"]
    /\ \E n \in 1..MaxRunCtx :
          /\ ctxOf = [s \in SessId |-> IF s = 1 THEN [i \in 1..n |-> i] ELSE <<>>]
          /\ runner = [c \in CtxId |-> [pc |-> IF c <= n THEN "Select" ELSE "Off",
                                        rem |-> <<>>]]
          /\ \E r \in {None, 1} :
                /\ sock = [c \in CtxId |-> IF r = None THEN UdpLatency_Server_new
                                           ELSE UdpLatency_Client_new(r)]
                /\ remote = [c \in CtxId |-> r]
    /\ pipe = [c \in CtxId |-> NewPipe]
    /\ cancel = [c \in CtxId |-> NewCancel]
    /\ dgOut = [c \in CtxId |-> {}]
    /\ lastRes = [c \in CtxId |-> NoCall]
    /\ hs = NoHandshake
    /\ complete = NewOneshot
    /\ hist = NoHist
    /\ trip = NoTrip

Next ==
    \/ SessStart(1)
    \/ SessTick(1)
    \/ SessWriteResume(1)
    \/ SessCtrlMsg(1)
    \/ SessTimeout(1)
    \/ SessStop(1)
    \/ StopSend(1)
    \/ Advance(MaxTime)
    \/ \E c \in CtxId : RunnerRead(c)
    \/ \E c \in CtxId, ioOk \in BOOLEAN : RunnerSend(c, ioOk)
    \/ \E c \in CtxId, src \in Addr, data \in Payloads, ioOk \in BOOLEAN :
          RunnerRecv(c, src, data, ioOk)
    \/ \E c \in CtxId : RunnerWriteResume(c)
    \/ \E c \in CtxId : RunnerStop(c)

Spec == Init /\ [][Next]_vars

\* ------------------------------------------------ CtrlServer (l. 120-168)
\* l. 145: `send(()).unwrap()` panics when the Client's Receiver is gone.
StopFails(ch) == ~TxSendOk(ch)

\* The for loop of l. 144-146 from client number i on:
\* client.stop.take().unwrap().send(()).unwrap().
RECURSIVE StopAll(_, _, _)
StopAll(E, i, n) ==
    IF i > n THEN [clients |-> E.clients, stopCh |-> E.stopCh, st |-> "Ok"]
    ELSE LET s == E.clients[i].sid IN
         IF E.clients[i].stop = "None"
         THEN [clients |-> E.clients, stopCh |-> E.stopCh, st |-> "Panic"]
         ELSE LET E2 == [clients |-> [E.clients EXCEPT ![i].stop = "None"],
                         stopCh |-> [E.stopCh EXCEPT ![s].sent = TxSendOk(E.stopCh[s])]]
              IN  IF StopFails(E.stopCh[s])
                  THEN [clients |-> E2.clients, stopCh |-> E2.stopCh, st |-> "Panic"]
                  ELSE StopAll(E2, i + 1, n)

\* ClientCtx::new (l. 109-117): the stop Sender in its slot, for Client sid.
ClientCtx_new(sid) == [sid |-> sid, stop |-> "Some"]

\* A handle_client that spawns the Client and forgets its ClientCtx.
HandleClientPush_forgot(cs, sid) == cs

\* l. 165: self.clients.push(ClientCtx::new(stop, fut)).
HandleClientPush(cs, sid) == Append(cs, ClientCtx_new(sid))

\* CtrlServer::run, select branch 1 (l. 138): accept() gives a connection
\* that is still connecting; run leaves its select! (the ctrl_c future of
\* this iteration is dropped) and waits in `connecting.await` (l. 139).
Accept ==
    /\ srv = "Running"
    /\ Len(clients) < MaxClients
    /\ srv' = "Connecting"
    /\ UNCHANGED <<now, clients, sess, stopCh, ctrl, ctxOf, pipe, cancel,
                   runner, sock, remote, dgOut, lastRes, hs, complete, hist,
                   trip>>

\* l. 139: the connection is established; run waits in open_bi().await
\* (l. 140).
Connected ==
    /\ srv = "Connecting"
    /\ srv' = "Opening"
    /\ UNCHANGED <<now, clients, sess, stopCh, ctrl, ctxOf, pipe, cancel,
                   runner, sock, remote, dgOut, lastRes, hs, complete, hist,
                   trip>>

\* l. 140-141 with handle_client (l. 155-167), which does not suspend: the
\* bidirectional stream is open, a Client is built and spawned, its ClientCtx
\* pushed, and run is back at its select!.
AcceptOk ==
    /\ srv = "Opening"
    /\ srv' = "Running"
    /\ sess' = [sess EXCEPT ![Len(clients) + 1] =
                   Client_new(Timeout_ms, Interval_ms, PacketSize)]
    /\ clients' = HandleClientPush(clients, Len(clients) + 1)
    /\ hist' = [hist EXCEPT !.accepts = @ + 1]
    /\ UNCHANGED <<now, stopCh, ctrl, ctxOf, pipe, cancel, runner, sock,
                   remote, dgOut, lastRes, hs, complete, trip>>

\* `connecting.await?` (l. 139) or `open_bi().await?` (l. 140) fails: run
\* returns the error.
AcceptErr ==
    /\ srv \in {"Connecting", "Opening"}
    /\ srv' = "Failed"
    /\ UNCHANGED <<now, clients, sess, stopCh, ctrl, ctxOf, pipe, cancel,
                   runner, sock, remote, dgOut, lastRes, hs, complete, hist,
                   trip>>

\* CtrlServer::run, select branch 2 (l. 143-149): ctrl_c.
CtrlC ==
    LET r == StopAll([clients |-> clients, stopCh |-> stopCh], 1, Len(clients)) IN
    /\ srv = "Running"
    /\ srv' = IF r.st = "Ok" THEN "Exited" ELSE "Panicked"
    /\ clients' = r.clients
    /\ stopCh' = r.stopCh
    /\ UNCHANGED <<now, sess, ctrl, ctxOf, pipe, cancel, runner, sock, remote,
                   dgOut, lastRes, hs, complete, hist, trip>>

\* The CtrlServer is dropped after run has ended: the stop Senders still in
\* their slots are dropped unused; the spawned tasks are detached.
ServerDrop ==
    /\ srv \in {"Exited", "Failed", "Panicked"}
    /\ srv' = "Gone"
    /\ stopCh' = [s \in SessId |->
                    IF \E i \in 1..Len(clients) :
                          clients[i].sid = s /\ clients[i].stop = "Some"
                    THEN [stopCh[s] EXCEPT !.txDropped = TRUE] ELSE stopCh[s]]
    /\ clients' = [i \in 1..Len(clients) |-> [clients[i] EXCEPT !.stop = "None"]]
    /\ UNCHANGED <<now, sess, ctrl, ctxOf, pipe, cancel, runner, sock, remote,
                   dgOut, lastRes, hs, complete, hist, trip>>

\* ------------------------------ SpecSrv: the CtrlServer and its Clients
SrvInit ==
    /\ now = 0
    /\ srv = "Running"
    /\ clients = <<>>
    /\ sess = [s \in SessId |-> NoClient]
    /\ stopCh = [s \in SessId |-> NewOneshot]
    /\ ctrl = [s \in SessId |-> "Open"]
    /\ ctxOf = [s \in SessId |-> <<>>]
    /\ pipe = [c \in CtxId |-> NewPipe]
    /\ cancel = [c \in CtxId |-> NewCancel]
    /\ runner = [c \in CtxId |-> [pc |-> "Off", rem |-> <<>>]]
    /\ sock = [c \in CtxId |-> UdpLatency_Server_new]
    /\ remote = [c \in CtxId |-> None]
    /\ dgOut = [c \in CtxId |-> {}]
    /\ lastRes = [c \in CtxId |-> NoCall]
    /\ hs = NoHandshake
    /\ complete = NewOneshot
    /\ hist = NoHist
    /\ trip = NoTrip

SrvNext ==
    \/ Accept
    \/ Connected
    \/ AcceptOk
    \/ AcceptErr
    \/ CtrlC
    \/ ServerDrop
    \/ Advance(MaxTimerTime)
    \/ \E s \in SessId : SessStart(s)
    \/ \E s \in SessId : SessTick(s)
    \/ \E s \in SessId : SessCtrlMsg(s)
    \/ \E s \in SessId : SessTimeout(s)
    \/ \E s \in SessId : SessStop(s)

SpecSrv == SrvInit /\ [][SrvNext]_vars

\* ------------------ SpecIdle: one Client without ConnCtx, as Client::new
\* leaves it, for every interval and timeout
IdleInit ==
    /\ now = 0
    /\ srv = "Off"
    /\ clients = <<>>
    /\ \E t \in Periods, iv \in Periods :
          sess = [s \in SessId |-> IF s = 1 THEN Client_new(t, iv, PacketSize)
                                   ELSE NoClient]
    /\ stopCh = [s \in SessId |-> NewOneshot]
    /\ ctrl = [s \in SessId |-> "Open"]
    /\ ctxOf = [s \in SessId |-> <<>>]
    /\ pipe = [c \in CtxId |-> NewPipe]
    /\ cancel = [c \in CtxId |-> NewCancel]
    /\ runner = [c \in CtxId |-> [pc |-> "Off", rem |-> <<>>]]
    /\ sock = [c \in CtxId |-> UdpLatency_Server_new]
    /\ remote = [c \in CtxId |-> None]
    /\ dgOut = [c \in CtxId |-> {}]
    /\ lastRes = [c \in CtxId |-> NoCall]
    /\ hs = NoHandshake
    /\ complete = NewOneshot
    /\ hist = NoHist
    /\ trip = NoTrip

IdleNext ==
    \/ SessStart(1)
    \/ SessTick(1)
    \/ SessCtrlMsg(1)
    \/ SessTimeout(1)
    \/ SessStop(1)
    \/ StopSend(1)
    \/ Advance(MaxTimerTime)

SpecIdle == IdleInit /\ [][IdleNext]_vars

\* ------------------------------------------- Client::handshake (l. 248-278)
\* l. 254-258, l. 267: the serialized ClientMessage::Handshake, an opaque
\* string of HsMsgLen bytes.
HandshakeMsg == [k \in 1..HsMsgLen |-> 7]

\* l. 273: `tokio::time::sleep(timeout)` is built by the select! of every loop
\* iteration, so the iteration that follows a tick at time t sleeps anew.
HsSleepAfterTick(h, t) == t + h.timeout

\* l. 263: `_ = &mut complete` takes whatever the Receiver resolves to.
HsCompleteReady(ch) == RxReady(ch)

HsRunning == hs.st \in {"Select", "Writing"}

\* What the tick branch leaves behind once its fan-out f has run as far as it
\* can, with h the handshake after the tick.  The panic of `.unwrap()`
\* (l. 269) unwinds handshake, which drops the `complete` Receiver it owns.
HsAfterFanOut(f, h) ==
    /\ hist' = [hist EXCEPT !.wlog = f.wlog]
    /\ pipe' = f.pipe
    /\ complete' = IF f.st = "Err" THEN [complete EXCEPT !.rxDropped = TRUE]
                   ELSE complete
    /\ hs' = IF f.st = "Err" THEN [h EXCEPT !.st = "Panicked"]
             ELSE IF f.st = "Done"
             THEN [h EXCEPT !.st = "Select", !.wi = 0, !.wrem = <<>>,
                            !.sleepAt = HsSleepAfterTick(h, now)]
             ELSE [h EXCEPT !.st = "Writing", !.wi = f.wi, !.wrem = f.wrem]

\* select branch 1 (l. 263-265): break Ok(()).
HsComplete ==
    /\ hs.st = "Select"
    /\ HsCompleteReady(complete)
    /\ hs' = [hs EXCEPT !.st = "Ok", !.via = IF complete.sent THEN "sent" ELSE "dropped"]
    /\ complete' = [complete EXCEPT !.rxDropped = TRUE]
    /\ UNCHANGED <<now, srv, clients, sess, stopCh, ctrl, ctxOf, pipe, cancel,
                   runner, sock, remote, dgOut, lastRes, hist, trip>>

\* select branch 2 (l. 266-271): handshake_timer.tick(), then the message is
\* written to every ConnCtx pipe.
HsTick ==
    /\ hs.st = "Select"
    /\ now >= hs.nextTick
    /\ HsAfterFanOut(
          FanOut([pipe |-> pipe, wlog |-> NoHist.wlog], ctxOf[hs.client], 1,
                 HandshakeMsg, HandshakeMsg),
          [hs EXCEPT !.nextTick = @ + hs.interval, !.ticks = @ + 1])
    /\ UNCHANGED <<now, srv, clients, sess, stopCh, ctrl, ctxOf, cancel,
                   runner, sock, remote, dgOut, lastRes, trip>>

\* The write_all suspended at l. 269 is polled again.
HsWriteResume ==
    /\ hs.st = "Writing"
    /\ WriteWakes(pipe[ctxOf[hs.client][hs.wi]].fwd,
                  pipe[ctxOf[hs.client][hs.wi]].closed)
    /\ HsAfterFanOut(
          FanOut([pipe |-> pipe, wlog |-> hist.wlog], ctxOf[hs.client], hs.wi,
                 hs.wrem, HandshakeMsg),
          hs)
    /\ UNCHANGED <<now, srv, clients, sess, stopCh, ctrl, ctxOf, cancel,
                   runner, sock, remote, dgOut, lastRes, trip>>

\* select branch 3 (l. 273-275): Err("handshake timeout").
HsTimeout ==
    /\ hs.st = "Select"
    /\ now >= hs.sleepAt
    /\ hs' = [hs EXCEPT !.st = "Timeout"]
    /\ complete' = [complete EXCEPT !.rxDropped = TRUE]
    /\ UNCHANGED <<now, srv, clients, sess, stopCh, ctrl, ctxOf, pipe, cancel,
                   runner, sock, remote, dgOut, lastRes, hist, trip>>

\* The holder of the completion Sender signals completion.
CompleteSend ==
    /\ ~complete.sent /\ ~complete.txDropped
    /\ HsRunning
    /\ complete' = [complete EXCEPT !.sent = TRUE]
    /\ UNCHANGED <<now, srv, clients, sess, stopCh, ctrl, ctxOf, pipe, cancel,
                   runner, sock, remote, dgOut, lastRes, hs, hist, trip>>

\* The holder of the completion Sender drops it unused.
CompleteDrop ==
    /\ ~complete.sent /\ ~complete.txDropped
    /\ HsRunning
    /\ complete' = [complete EXCEPT !.txDropped = TRUE]
    /\ UNCHANGED <<now, srv, clients, sess, stopCh, ctrl, ctxOf, pipe, cancel,
                   runner, sock, remote, dgOut, lastRes, hs, hist, trip>>

\* ---------- SpecHs: handshake called on a Client that run() is not driving
HsInit ==
    /\ now = 0
    /\ srv = "Off"
    /\ clients = <<>>
    /\ sess = [s \in SessId |-> NoClient]
    /\ stopCh = [s \in SessId |-> NewOneshot]
    /\ ctrl = [s \in SessId |-> "Open"]
    /\ \E n \in 0..MaxHsCtx :
          /\ ctxOf = [s \in SessId |-> IF s = 1 THEN [i \in 1..n |-> i] ELSE <<>>]
          /\ runner = [c \in CtxId |-> [pc |-> IF c <= n THEN "Select" ELSE "Off",
                                        rem |-> <<>>]]
    /\ pipe = [c \in CtxId |-> NewPipe]
    /\ cancel = [c \in CtxId |-> NewCancel]
    /\ sock = [c \in CtxId |-> UdpLatency_Client_new(1)]
    /\ remote = [c \in CtxId |-> 1]
    /\ dgOut = [c \in CtxId |-> {}]
    /\ lastRes = [c \in CtxId |-> NoCall]
    /\ \E t \in Periods, iv \in Periods :
          hs = [NoHandshake EXCEPT !.st = "Select", !.client = 1,
                                   !.timeout = t, !.interval = iv,
                                   !.sleepAt = t]
    /\ complete = NewOneshot
    /\ hist = NoHist
    /\ trip = NoTrip

HsNext ==
    \/ HsComplete
    \/ HsTick
    \/ HsWriteResume
    \/ HsTimeout
    \/ CompleteSend
    \/ CompleteDrop
    \/ Advance(MaxTimerTime)
    \/ \E c \in CtxId : RunnerRead(c)
    \/ \E c \in CtxId, ioOk \in BOOLEAN : RunnerSend(c, ioOk)
    \/ \E c \in CtxId, src \in Addr, data \in Payloads, ioOk \in BOOLEAN :
          RunnerRecv(c, src, data, ioOk)

SpecHs == HsInit /\ [][HsNext]_vars

\* ------------- SpecFan: one Client with up to MaxCtx ConnCtx whose runners
\* hold Initiator sockets, while the network and the control stream are silent
FanInit ==
    /\ now = 0
    /\ srv = "Off"
    /\ clients = <<>>
    /\ \E ps \in 1..MaxPacket :
          sess = [s \in SessId |-> IF s = 1 THEN Client_new(Timeout_ms, Interval_ms, ps)
                                   ELSE NoClient]
    /\ stopCh = [s \in SessId |-> NewOneshot]
    /\ ctrl = [s \in SessId |-> "Open"]
    /\ \E n \in 1..MaxCtx :
          /\ ctxOf = [s \in SessId |-> IF s = 1 THEN [i \in 1..n |-> i] ELSE <<>>]
          /\ runner = [c \in CtxId |-> [pc |-> IF c <= n THEN "Select" ELSE "Off",
                                        rem |-> <<>>]]
    /\ sock = [c \in CtxId |-> UdpLatency_Client_new(1)]
    /\ remote = [c \in CtxId |-> 1]
    /\ pipe = [c \in CtxId |-> NewPipe]
    /\ cancel = [c \in CtxId |-> NewCancel]
    /\ dgOut = [c \in CtxId |-> {}]
    /\ lastRes = [c \in CtxId |-> NoCall]
    /\ hs = NoHandshake
    /\ complete = NewOneshot
    /\ hist = NoHist
    /\ trip = NoTrip

FanNext ==
    \/ SessStart(1)
    \/ SessTick(1)
    \/ SessWriteResume(1)
    \/ SessTimeout(1)
    \/ Advance(MaxTime)
    \/ \E c \in CtxId : RunnerRead(c)
    \/ \E c \in CtxId, ioOk \in BOOLEAN : RunnerSend(c, ioOk)
    \/ \E c \in CtxId : RunnerStop(c)

SpecFan == FanInit /\ [][FanNext]_vars

\* ------------- SpecDrop: a CtrlServer that has accepted one Client, which
\* owns up to MaxRunCtx ConnCtx; the next connection fails to connect or to
\* open its stream, so run ends on ctrl_c or on that error, and the
\* CtrlServer is dropped afterwards
DropInit ==
    /\ now = 0
    /\ srv = "Running"
    /\ clients = HandleClientPush(<<>>, 1)
    /\ \E ps \in 1..MaxPacket :
          sess = [s \in SessId |-> IF s = 1 THEN Client_new(Timeout_ms, Interval_ms, ps)
                                   ELSE NoClient]
    /\ stopCh = [s \in SessId |-> NewOneshot]
    /\ ctrl = [s \in SessId |-> "Open"]
    /\ \E n \in 0..MaxRunCtx :
          /\ ctxOf = [s \in SessId |-> IF s = 1 THEN [i \in 1..n |-> i] ELSE <<>>]
          /\ runner = [c \in CtxId |-> [pc |-> IF c <= n THEN "Select" ELSE "Off",
                                        rem |-> <<>>]]
    /\ sock = [c \in CtxId |-> UdpLatency_Client_new(1)]
    /\ remote = [c \in CtxId |-> 1]
    /\ pipe = [c \in CtxId |-> NewPipe]
    /\ cancel = [c \in CtxId |-> NewCancel]
    /\ dgOut = [c \in CtxId |-> {}]
    /\ lastRes = [c \in CtxId |-> NoCall]
    /\ hs = NoHandshake
    /\ complete = NewOneshot
    /\ hist = [NoHist EXCEPT !.accepts = 1]
    /\ trip = NoTrip

DropNext ==
    \/ Accept
    \/ Connected
    \/ AcceptErr
    \/ CtrlC
    \/ ServerDrop
    \/ SessStart(1)
    \/ SessTick(1)
    \/ SessWriteResume(1)
    \/ SessTimeout(1)
    \/ SessStop(1)
    \/ Advance(MaxTime)
    \/ \E c \in CtxId : RunnerRead(c)
    \/ \E c \in CtxId, ioOk \in BOOLEAN : RunnerSend(c, ioOk)
    \/ \E c \in CtxId : RunnerStop(c)

SpecDrop == DropInit /\ [][DropNext]_vars

\* ----------------------------------------------- FairSpec: Spec under the
\* runtime's scheduling: a task that is ready is polled, and a select! branch
\* that is ready again and again is taken (select! starts at a random branch).
Fairness ==
    /\ WF_vars(SessStart(1))
    /\ WF_vars(SessWriteResume(1))
    /\ SF_vars(SessStop(1))
    /\ \A c \in 1..MaxRunCtx : WF_vars(RunnerWriteResume(c))
    /\ \A c \in 1..MaxRunCtx : SF_vars(RunnerStop(c))
    /\ \A c \in 1..MaxRunCtx : SF_vars(RunnerRead(c))
    /\ \A c \in 1..MaxRunCtx : WF_vars(\E ioOk \in BOOLEAN : RunnerSend(c, ioOk))

\* The runners hold Initiator sockets and a probe fits a pipe once, as the
\* 1000 bytes of l. 161 fit the 1024 of the pipes of l. 342 and 353.
FairInit ==
    /\ Init
    /\ sess[1].packet_size = PipeCap
    /\ \A c \in CtxId : sock[c].kind = "Client"

FairSpec == FairInit /\ [][Next]_vars /\ Fairness

\* ------------- SpecTrip: the round trip of test::test (l. 365-389): a
\* ConnRunner on an Initiator socket, one on a Reflector socket, a network that
\* delivers every datagram, in order, and the test's task on both ConnCtx; a
\* send may fail, which ends that runner and, at its next write, the test
MaxTripBytes == 4   \* bytes the test hands to write_all altogether
TripMsgLen == 2     \* length of one message of the test, in bytes

\* The ConnCtx of test_client (l. 367) and of test_server (l. 368).
TripInitiator == 1

TripReflector == 2

\* "127.0.0.1:12345" (l. 344, 355), and the address the Initiator's socket
\* gets from the system.
ReflectorAddr == 1

InitiatorAddr == NumAddr

AddrOf(c) == IF c = TripReflector THEN ReflectorAddr ELSE InitiatorAddr

PeerCtx(c) == IF c = TripReflector THEN TripInitiator ELSE TripReflector

\* l. 379: the bytes of the next message; they are numbered where the test
\* repeats "hello", so that a byte out of place shows.
TripMsg(n) == [k \in 1..Min(TripMsgLen, MaxTripBytes - n) |-> n + k]

\* client_ctx and server_ctx (l. 367-368), which test::test owns.
TripCtxs == <<TripInitiator, TripReflector>>

\* What a write_all of the test that has got as far as w leaves behind, with
\* P the pipes after it and T the test's task: the select! again, the
\* suspended write, or the panic of `.unwrap()` on BrokenPipe (l. 380,
\* l. 384), which ends test::test and drops both ConnCtx: both pipes close
\* and both stop Senders are dropped unused.
TripAfterWrite(w, pc, T, P) ==
    IF w.st = "Err"
    THEN /\ trip' = [T EXCEPT !.pc = "Panicked", !.rem = <<>>]
         /\ pipe' = PipesAfterClientDrop(P, TripCtxs)
         /\ cancel' = CancelAfterClientDrop(cancel, TripCtxs)
    ELSE /\ trip' = [T EXCEPT !.pc = IF w.st = "Ok" THEN "Select" ELSE pc,
                              !.rem = w.rem]
         /\ pipe' = P
         /\ UNCHANGED cancel

\* The test's write_all of `data` into the pipe of ConnCtx c (l. 380, 384),
\* suspended at position `pc` while bytes remain.
TripWrite(c, data, pc, T) ==
    LET w == WriteAll(pipe[c].fwd, pipe[c].closed, data) IN
    TripAfterWrite(w, pc, T, [pipe EXCEPT ![c].fwd = w.buf])

\* test::test, tick branch (l. 378-381).
TripTick ==
    /\ trip.pc = "Select"
    /\ trip.next < MaxTripBytes
    /\ TripWrite(TripInitiator, TripMsg(trip.next), "WritingTick",
                 [trip EXCEPT !.next = @ + Len(TripMsg(trip.next))])
    /\ UNCHANGED <<now, srv, clients, sess, stopCh, ctrl, ctxOf, runner,
                   sock, remote, dgOut, lastRes, hs, complete, hist>>

\* test::test, read branch (l. 382-386): what the Reflector-side pipe holds
\* (nothing, with Ok(0), once it is closed) is read and written back.
TripEcho ==
    /\ trip.pc = "Select"
    /\ ReadReady(pipe[TripReflector].rev, pipe[TripReflector].closed)
    /\ LET data == pipe[TripReflector].rev
           w == WriteAll(pipe[TripReflector].fwd, pipe[TripReflector].closed,
                         data)
       IN  TripAfterWrite(w, "WritingEcho", [trip EXCEPT !.got = @ \o data],
                          [pipe EXCEPT ![TripReflector] =
                              [@ EXCEPT !.rev = <<>>, !.fwd = w.buf]])
    /\ UNCHANGED <<now, srv, clients, sess, stopCh, ctrl, ctxOf, runner,
                   sock, remote, dgOut, lastRes, hs, complete, hist>>

\* The test's suspended write_all (l. 380 or l. 384) is polled again.
TripWriteResume ==
    LET c == IF trip.pc = "WritingTick" THEN TripInitiator ELSE TripReflector IN
    /\ trip.pc \in {"WritingTick", "WritingEcho"}
    /\ WriteWakes(pipe[c].fwd, pipe[c].closed)
    /\ TripWrite(c, trip.rem, trip.pc, trip)
    /\ UNCHANGED <<now, srv, clients, sess, stopCh, ctrl, ctxOf, runner,
                   sock, remote, dgOut, lastRes, hs, complete, hist>>

\* The network holds at most this many datagrams of one socket: enough for
\* every byte of the test to travel in a datagram of its own.
MaxInFlight == MaxTripBytes

\* The send_to suspended at l. 324 completes, and the datagram is in flight
\* to the peer of the socket, or the send fails.
TripRunnerSend(c, ioOk) ==
    LET r == UdpLatency_send(sock[c], runner[c].rem, ioOk) IN
    /\ runner[c].pc = "Sending"
    /\ Len(trip.net[c]) < MaxInFlight
    /\ RunnerAfterSend(c, r)
    /\ trip' = IF r.res.tag = "Ok"
               THEN [trip EXCEPT !.net[c] =
                        Append(@, [src |-> AddrOf(c), dest |-> sock[c].peer,
                                   data |-> runner[c].rem])]
               ELSE trip
    /\ UNCHANGED <<now, srv, clients, sess, stopCh, ctrl, ctxOf, sock, remote,
                   lastRes, hs, complete>>

\* ConnRunner::run, select branch 2 (l. 326-329), on the oldest datagram in
\* flight to this socket.
TripRunnerRecv(c) ==
    LET q == trip.net[PeerCtx(c)]
        d == Head(q)
        r == UdpLatency_recv(sock[c], d.src, Len(d.data), TRUE)
    IN  /\ AtSelect(runner[c])
        /\ q # <<>>
        /\ d.dest = AddrOf(c)
        /\ sock' = [sock EXCEPT ![c] = r.sock]
        /\ trip' = [trip EXCEPT !.net[PeerCtx(c)] = Tail(q)]
        /\ IF r.res.tag = "Ok"
           THEN RunnerWrite(c, Take(d.data, r.res.len))
           ELSE /\ runner' = [runner EXCEPT ![c].pc = PcAfterUnwrap(r.res)]
                /\ pipe' = [pipe EXCEPT ![c] = PipeAfterRunnerDrop(@)]
                /\ cancel' = [cancel EXCEPT ![c] = CancelAfterRunnerDrop(@)]
                /\ hist' = FailedAfter(c, r.res)
        /\ UNCHANGED <<now, srv, clients, sess, stopCh, ctrl, ctxOf, remote,
                       dgOut, lastRes, hs, complete>>

TripInit ==
    /\ now = 0
    /\ srv = "Off"
    /\ clients = <<>>
    /\ sess = [s \in SessId |-> NoClient]
    /\ stopCh = [s \in SessId |-> NewOneshot]
    /\ ctrl = [s \in SessId |-> "Open"]
    /\ ctxOf = [s \in SessId |-> <<>>]
    /\ pipe = [c \in CtxId |-> NewPipe]
    /\ cancel = [c \in CtxId |-> NewCancel]
    /\ runner = [c \in CtxId |->
                    [pc |-> IF c \in {TripInitiator, TripReflector}
                            THEN "Select" ELSE "Off",
                     rem |-> <<>>]]
    /\ sock = [c \in CtxId |-> IF c = TripInitiator
                               THEN UdpLatency_Client_new(ReflectorAddr)
                               ELSE UdpLatency_Server_new]
    /\ remote = [c \in CtxId |-> IF c = TripInitiator THEN ReflectorAddr
                                 ELSE None]
    /\ dgOut = [c \in CtxId |-> {}]
    /\ lastRes = [c \in CtxId |-> NoCall]
    /\ hs = NoHandshake
    /\ complete = NewOneshot
    /\ hist = NoHist
    /\ trip = [NoTrip EXCEPT !.pc = "Select"]

TripNext ==
    \/ TripTick
    \/ TripEcho
    \/ TripWriteResume
    \/ \E c \in {TripInitiator, TripReflector} : RunnerRead(c)
    \/ \E c \in {TripInitiator, TripReflector}, ioOk \in BOOLEAN :
          TripRunnerSend(c, ioOk)
    \/ \E c \in {TripInitiator, TripReflector} : TripRunnerRecv(c)
    \/ \E c \in {TripInitiator, TripReflector} : RunnerWriteResume(c)
    \/ \E c \in {TripInitiator, TripReflector} : RunnerStop(c)

SpecTrip == TripInit /\ [][TripNext]_vars

\* ------------- SpecCtl: MaxClients Clients without ConnCtx, of one
\* configuration, whose control stream may be
\* finished by the peer; time is kept as the time left to each deadline, so
\* that a Client can tick for ever
\* The peer finishes its side of the control stream.
CtrlClose(s) ==
    /\ Alive(s)
    /\ ctrl[s] = "Open"
    /\ ctrl' = [ctrl EXCEPT ![s] = "Eof"]
    /\ UNCHANGED <<now, srv, clients, sess, stopCh, ctxOf, pipe, cancel,
                   runner, sock, remote, dgOut, lastRes, hs, complete, hist,
                   trip>>

\* Client::run, select branch 2 (l. 223) at the end of the stream:
\* rx_ctrl.read gives Ok(None), the pattern Ok(Some(len)) does not match, and
\* select! drops the branch and goes on waiting for the others.
CtrlEofEnds(cl) == cl

SessCtrlEof(s) ==
    /\ sess[s].st = "Select"
    /\ ctrl[s] = "Eof"
    /\ sess' = [sess EXCEPT ![s] = CtrlEofEnds(@)]
    /\ UNCHANGED <<now, srv, clients, stopCh, ctrl, ctxOf, pipe, cancel,
                   runner, sock, remote, dgOut, lastRes, hs, complete, hist,
                   trip>>

\* MsPerStep pass for a task that holds timers: at its select! the interval
\* (l. 208, l. 259) and the sleep of this iteration (l. 227, l. 273) are one
\* step nearer; suspended in a write_all of the tick branch it holds the
\* interval only, whose deadline goes on falling due.
Elapse(cl) ==
    IF cl.st = "Select"
    THEN [cl EXCEPT !.nextTick = @ - MsPerStep, !.sleepAt = @ - MsPerStep]
    ELSE IF cl.st = "Writing"
    THEN [cl EXCEPT !.nextTick = @ - MsPerStep]
    ELSE cl

\* A task suspended in a write_all for which MaxTime steps have passed since
\* its next tick fell due: the clock is not followed further.
LongOverdue(cl) == cl.st = "Writing" /\ cl.nextTick <= -(MaxTime * MsPerStep)

\* The clock moves on one step, seen from the new instant: every deadline of
\* a Client and of the handshake is one step nearer.
AdvanceRel ==
    /\ TimersHeld
    /\ ~TimerDue
    /\ ~LongOverdue(hs)
    /\ \A s \in SessId : ~LongOverdue(sess[s])
    /\ sess' = [s \in SessId |-> Elapse(sess[s])]
    /\ hs' = Elapse(hs)
    /\ UNCHANGED <<now, srv, clients, stopCh, ctrl, ctxOf, pipe, cancel,
                   runner, sock, remote, dgOut, lastRes, complete, hist,
                   trip>>

CtlInit ==
    /\ now = 0
    /\ srv = "Off"
    /\ clients = <<>>
    /\ \E t \in Periods, iv \in Periods :
          sess = [s \in SessId |-> Client_new(t, iv, PacketSize)]
    /\ stopCh = [s \in SessId |-> NewOneshot]
    /\ ctrl = [s \in SessId |-> "Open"]
    /\ ctxOf = [s \in SessId |-> <<>>]
    /\ pipe = [c \in CtxId |-> NewPipe]
    /\ cancel = [c \in CtxId |-> NewCancel]
    /\ runner = [c \in CtxId |-> [pc |-> "Off", rem |-> <<>>]]
    /\ sock = [c \in CtxId |-> UdpLatency_Server_new]
    /\ remote = [c \in CtxId |-> None]
    /\ dgOut = [c \in CtxId |-> {}]
    /\ lastRes = [c \in CtxId |-> NoCall]
    /\ hs = NoHandshake
    /\ complete = NewOneshot
    /\ hist = NoHist
    /\ trip = NoTrip

CtlNext ==
    \/ \E s \in SessId : SessStart(s)
    \/ \E s \in SessId : SessTick(s)
    \/ \E s \in SessId : SessCtrlMsg(s)
    \/ \E s \in SessId : SessCtrlEof(s)
    \/ \E s \in SessId : SessTimeout(s)
    \/ \E s \in SessId : SessStop(s)
    \/ \E s \in SessId : StopSend(s)
    \/ \E s \in SessId : CtrlClose(s)
    \/ AdvanceRel

\* The runtime polls a task that is ready, select! takes a branch that is
\* ready again and again, and time passes.
CtlFairness ==
    /\ \A s \in SessId : WF_vars(SessStart(s))
    /\ \A s \in SessId : SF_vars(SessTick(s))
    /\ \A s \in SessId : SF_vars(SessTimeout(s))
    /\ \A s \in SessId : SF_vars(SessStop(s))
    /\ WF_vars(AdvanceRel)

SpecCtl == CtlInit /\ [][CtlNext]_vars /\ CtlFairness

\* ------------------------------------------------------------- claims
\* C3: a Client spawned by the CtrlServer is in its steady-state loop only
\* after its handshake has returned Ok.
C3_HandshakeBeforeSteady ==
    \A s \in SessId : SteadyState(s) => (hs.client = s /\ hs.st = "Ok")

\* C4: with no completion signal, the handshake is over once `timeout` has
\* elapsed since it started; stated for a Client without ConnCtx and a retry
\* interval shorter than the timeout.
C4_HandshakeTimesOut ==
    (/\ hs.st = "Select"
     /\ ctxOf[1] = <<>>
     /\ hs.interval < hs.timeout
     /\ ~complete.sent /\ ~complete.txDropped)
    => now <= hs.start + hs.timeout

\* C5: a Client that gets no stop signal has left its loop once `timeout`
\* has elapsed since it started; stated for a Client without ConnCtx and a
\* probe interval shorter than the timeout.
C5_IdleTimeoutFromStart ==
    \A s \in SessId :
        (/\ sess[s].st = "Select"
         /\ ctxOf[s] = <<>>
         /\ sess[s].interval < sess[s].timeout
         /\ ~RxReady(stopCh[s]))
        => now <= sess[s].start + sess[s].timeout

\* C6: once stop has been sent to a Client in its steady-state loop, the
\* Client's task eventually ends.
C6_StopLeadsToEnd ==
    (stopCh[1].sent /\ SteadyState(1)) ~> Terminated(1)

\* C7: once the shutdown trigger has fired, run has left its loop normally
\* with a stop sent to every Client it tracks.
C7_ShutdownStopsAll ==
    srv \in {"Exited", "Panicked"}
    => /\ srv = "Exited"
       /\ \A i \in 1..Len(clients) :
             clients[i].stop = "None" /\ stopCh[clients[i].sid].sent

EndedByStopOrTimeout(s) ==
    Terminated(s) /\ sess[s].cause \in {"stop", "timeout"}

\* C8: when a Client has ended through its stop or timeout branch, the
\* cancellation Sender of every ConnCtx it owned was used exactly once.
C8_EachCancelUsedOnce ==
    \A s \in SessId :
        EndedByStopOrTimeout(s)
        => \A i \in 1..Len(ctxOf[s]) : cancel[ctxOf[s][i]].uses = 1

\* C9: after a Client has ended through its stop or timeout branch, every
\* ConnRunner paired with one of its ConnCtx eventually leaves its loop.
C9_RunnersEnd ==
    \A c \in 1..MaxRunCtx :
        (EndedByStopOrTimeout(1) /\ c <= Len(ctxOf[1])) ~> RunnerGone(c)

\* A Client ended by stop while a runner still sat in its select!, and that
\* runner then took its stop branch.
C9_Witness ==
    /\ EndedByStopOrTimeout(1)
    /\ Len(ctxOf[1]) = MaxRunCtx
    /\ \E c \in CtxId : runner[c].pc = "Exited"
    /\ \A i \in 1..Len(ctxOf[1]) : RunnerGone(ctxOf[1][i])

\* The bytes ConnCtx number i has got from the fan-out of the current tick,
\* and those it is still owed by a suspended write.
TickWritten(s, i) == hist.wlog[ctxOf[s][i]]

TickOwed(s, i) == IF i = sess[s].wi THEN sess[s].wrem ELSE <<>>

\* C10: a tick writes one payload of packet_size bytes, the same for every
\* ConnCtx, exactly once to each pipe: all of them have it when the tick is
\* done, and while a write is suspended those before it have it, that one has
\* a prefix of it, and those after have nothing yet.
C10_FanOutOnce ==
    \A s \in SessId :
        /\ (sess[s].st = "Select" /\ sess[s].nextTick > sess[s].start)
           => \A i \in 1..Len(ctxOf[s]) :
                 TickWritten(s, i) = Zeros(sess[s].packet_size)
        /\ sess[s].st = "Writing"
           => \A i \in 1..Len(ctxOf[s]) :
                 TickWritten(s, i) \o TickOwed(s, i) =
                    IF i <= sess[s].wi THEN Zeros(sess[s].packet_size) ELSE <<>>

\* A tick over MaxCtx ConnCtx is done although its payload is larger than a
\* pipe, so that writes were suspended and resumed on the way.
C10_Witness ==
    /\ sess[1].st = "Select"
    /\ sess[1].nextTick > sess[1].start
    /\ Len(ctxOf[1]) = MaxCtx
    /\ sess[1].packet_size > PipeCap
    /\ \A i \in 1..Len(ctxOf[1]) : TickWritten(1, i) = Zeros(sess[1].packet_size)

\* The Clients that have been built and spawned.
Spawned == {s \in SessId : sess[s].st # "Unborn"}

\* C11: after any sequence of accepts the CtrlServer has spawned exactly one
\* Client per accepted control connection and holds exactly one ClientCtx for
\* each of them.
C11_OneSessionPerAccept ==
    /\ Cardinality(Spawned) = hist.accepts
    /\ Len(clients) = hist.accepts
    /\ \A i, j \in 1..Len(clients) : clients[i].sid = clients[j].sid => i = j
    /\ \A i \in 1..Len(clients) : clients[i].sid \in Spawned

\* MaxClients connections were accepted, the first Client has ended by then,
\* and run is still in its loop.
C11_Witness ==
    /\ srv = "Running"
    /\ hist.accepts = MaxClients
    /\ Terminated(1)
    /\ Alive(MaxClients)

\* The bytes of the datagrams in flight, oldest first.
RECURSIVE Flat(_)
Flat(q) == IF q = <<>> THEN <<>> ELSE Head(q).data \o Flat(Tail(q))

\* The test's write_all still holds these bytes for ConnCtx c.
TripOwed(c) ==
    IF \/ (c = TripInitiator /\ trip.pc = "WritingTick")
       \/ (c = TripReflector /\ trip.pc = "WritingEcho")
    THEN trip.rem ELSE <<>>

\* The bytes runner c holds while it is suspended in its send
\* (pc = "Sending") or in its write_all (pc = "Writing").
RunnerHolds(c, pc) == IF runner[c].pc = pc THEN runner[c].rem ELSE <<>>

\* The bytes on their way from the ConnCtx `from` to the pipe of its peer's
\* ConnCtx, in the order they were handed over.
InTransit(from) ==
    pipe[PeerCtx(from)].rev \o RunnerHolds(PeerCtx(from), "Writing") \o
    Flat(trip.net[from]) \o RunnerHolds(from, "Sending") \o
    pipe[from].fwd \o TripOwed(from)

\* C12: the bytes written on the Initiator side reach the Reflector-side pipe
\* unchanged and in order, and the bytes written back there reach the
\* Initiator-side pipe unchanged and in order: what was read on the Reflector
\* side, followed by what is on the way, is what was written, and what is in
\* the Initiator-side pipe and on the way back is what was read there.  This
\* is claimed while no operation of a runner or of the test has failed.
C12_RoundTrip ==
    (trip.pc # "Panicked" /\ hist.failed = {})
    => /\ trip.got \o InTransit(TripInitiator) = [k \in 1..trip.next |-> k]
       /\ InTransit(TripReflector) = trip.got

\* All bytes of the test were read on the Reflector side, in more than one
\* read, and the first of them are back in the Initiator-side pipe.
C12_Witness ==
    /\ trip.next = MaxTripBytes
    /\ Len(trip.got) = MaxTripBytes
    /\ Len(pipe[TripInitiator].rev) = PipeCap
    /\ runner[TripInitiator].pc = "Writing"

\* C13: once the receive half of its control stream has reported the end of
\* the stream, a Client in its steady-state loop eventually ends.
C13_EofLeadsToEnd ==
    \A s \in SessId : (ctrl[s] = "Eof" /\ SteadyState(s)) ~> Terminated(s)

\* C14: a failed read, send, receive (PeerMismatch included) or write ends
\* the ConnRunner at once, and a runner that has ended reads, sends, receives
\* and writes nothing more.
C14_FailureEndsRunner ==
    [][\A c \in CtxId :
          /\ c \in hist'.failed => runner'[c].pc = "Panicked"
          /\ runner[c].pc = "Panicked"
             => /\ runner'[c] = runner[c]
                /\ sock'[c] = sock[c]
                /\ dgOut'[c] = dgOut[c]
                /\ Len(pipe'[c].fwd) >= Len(pipe[c].fwd)
                /\ Len(pipe'[c].rev) <= Len(pipe[c].rev)]_vars

\* The runner of the first ConnCtx has ended on a failed operation while the
\* Client and the runner of the second are still in their loops.
C14_Witness ==
    /\ 1 \in hist.failed
    /\ runner[1].pc = "Panicked"
    /\ runner[2].pc = "Select"
    /\ SteadyState(1)

\* C15: a write to the pipe of one ConnCtx that fails during a tick ends the
\* whole Client: in that tick no ConnCtx after the failing one is written to,
\* and afterwards the Client handles nothing more and no pipe of its gains a
\* byte.
C15_WriteFailureEndsSession ==
    [][\A s \in SessId :
          /\ \A i \in 1..Len(ctxOf[s]) :
                <<s, i>> \in hist'.wfail
                => /\ sess'[s].st = "Panicked"
                   /\ sess'[s].cause = "write"
                   /\ \A j \in (i + 1)..Len(ctxOf[s]) :
                         /\ hist'.wlog[ctxOf[s][j]] = <<>>
                         /\ Len(pipe'[ctxOf[s][j]].fwd) <= Len(pipe[ctxOf[s][j]].fwd)
          /\ Terminated(s)
             => /\ sess'[s] = sess[s]
                /\ hist'.wlog = hist.wlog
                /\ \A i \in 1..Len(ctxOf[s]) :
                      Len(pipe'[ctxOf[s][i]].fwd) <= Len(pipe[ctxOf[s][i]].fwd)]_vars

\* A Client with three ConnCtx has ended on the failed write to the second,
\* in a tick that had written to the first and never reached the third.
C15_Witness ==
    /\ Len(ctxOf[1]) = MaxCtx
    /\ <<1, 2>> \in hist.wfail
    /\ hist.wlog[1] # <<>>
    /\ hist.wlog[3] = <<>>
    /\ runner[3].pc = "Select"
    /\ sess[1].st = "Panicked"

\* C16: a retry tick of the handshake sends its HandshakeMessage on the
\* control stream only: no tick has written a byte to the pipe of a ConnCtx.
C16_HandshakeOffDataPlane ==
    \A c \in CtxId : hs.ticks > 0 => hist.wlog[c] = <<>>

\* C17: a handshake that has returned Ok(()) was resolved by a completion
\* signal that was sent, never by a `complete` Sender dropped unused.
C17_OkOnlyAfterSignal ==
    hs.st = "Ok" => (complete.sent /\ hs.via = "sent")

\* C18: a ConnRunner suspended inside a forward (the send of l. 324 or the
\* write_all of l. 328) does not take its stop branch and does not serve the
\* other direction: suspended in the send it receives nothing and writes
\* nothing to its pipe, suspended in the write_all it sends no datagram and
\* reads nothing from its pipe; it leaves the forward only with the datagram
\* sent or all bytes written, or by the failure of the operation.  The stop
\* branch is taken from the select! only.
C18_StopOnlyBetweenForwards ==
    [][\A c \in CtxId :
          /\ runner[c].pc = "Sending"
             => /\ runner'[c].pc \in {"Sending", "Select", "Panicked"}
                /\ sock'[c] = sock[c]
                /\ Len(pipe'[c].rev) <= Len(pipe[c].rev)
                /\ Len(pipe'[c].fwd) >= Len(pipe[c].fwd)
                /\ runner'[c].pc = "Select"
                   => dgOut'[c] = {[dest |-> sock[c].peer,
                                    data |-> runner[c].rem]}
                /\ runner'[c].pc # "Select" => dgOut'[c] = dgOut[c]
          /\ runner[c].pc = "Writing"
             => /\ runner'[c].pc \in {"Writing", "Select", "Panicked"}
                /\ dgOut'[c] = dgOut[c]
                /\ sock'[c] = sock[c]
                /\ Len(pipe'[c].fwd) >= Len(pipe[c].fwd)
                /\ runner'[c].pc = "Select"
                   => pipe'[c].rev = pipe[c].rev \o runner[c].rem
                /\ runner'[c].pc = "Panicked" => pipe[c].closed
          /\ (runner'[c].pc = "Exited" /\ runner[c].pc # "Exited")
             => runner[c].pc = "Select" /\ RunnerStopReady(cancel[c])]_vars

\* One runner is suspended in its write_all and another in its send while
\* the cancellation of both has been sent and bytes wait in the first one's
\* pipe for the other direction.
C18_Witness ==
    /\ runner[1].pc = "Writing"
    /\ cancel[1].sent
    /\ pipe[1].fwd # <<>>
    /\ runner[2].pc = "Sending"
    /\ runner[2].rem # <<>>
    /\ cancel[2].sent

\* C19: a Client whose stop Sender was dropped without a send, and which has
\* left its loop through the stop branch, has sent the cancellation to every
\* ConnCtx it owns and has returned.
C19_DroppedStopCancelsAll ==
    \A s \in SessId :
        (/\ stopCh[s].txDropped
         /\ ~stopCh[s].sent
         /\ Terminated(s)
         /\ sess[s].cause = "stop")
        => /\ sess[s].st = "Done"
           /\ \A i \in 1..Len(ctxOf[s]) :
                 /\ cancel[ctxOf[s][i]].sent
                 /\ cancel[ctxOf[s][i]].uses = 1

\* C20: every datagram a ConnRunner hands to its socket carries at least one
\* byte read from its pipe, also after the Client's end of the pipe is gone.
C20_NoEmptyDatagram ==
    \A c \in CtxId : \A d \in dgOut[c] : d.data # <<>>

====
